---- MODULE Spec2Model ----
(***************************************************************************)
(* Model of the "within" shared-runs pilot page (src/src/app/page.tsx):    *)
(* the arithmetic helpers roundUpToBucket and largestPrimeFactor, the      *)
(* operator form with postSignal, and claimOne against the hosted backend. *)
(* Instants are integers in milliseconds since the epoch.                  *)
(***************************************************************************)
EXTENDS Integers, Sequences, FiniteSets, TLC

(* ---------------- bounds of the model ---------------- *)
\* largestPrimeFactor is called with n in (-NegN)..MaxN
MaxN == 40
NegN == 6
\* roundUpToBucket is tried with buckets of 1..MaxBucketMin minutes, on
\* instants up to MaxQuot buckets after the epoch
MaxBucketMin == 15
MaxQuot == 3
\* the page is observed at instants up to MaxTick buckets after the epoch
MaxTick == 0
\* the "Leave in" options tried: the first MaxLeaveIn + 1 of the select
MaxLeaveIn == 1
\* postSignal is submitted while the backend holds fewer than MaxRows runs
MaxRows == 1
\* load() calls in flight at once on one page
MaxLoads == 2
\* rows the backend table 'claims' can take
MaxClaims == 4

(* ---------------- Config & helpers (page.tsx 8-16) ---------------- *)
BUCKET_MIN == 15

mins(k) == k * 60 * 1000

hours(k) == k * 60 * 60 * 1000

\* JavaScript's % : the result takes the sign of the dividend
JsRem(a, b) == IF a >= 0 THEN a % b ELSE -((-a) % b)

\* Math.ceil(a / b) for b > 0
MathCeilDiv(a, b) == IF a % b = 0 THEN a \div b ELSE (a \div b) + 1

VARIABLES
  n,        \* argument of the running largestPrimeFactor call
  x,        \* its local x
  lpf,      \* its local lpf
  f,        \* its loop variable f
  lpfPc,    \* position in largestPrimeFactor
  unitsAuto,\* useMemo result: largestPrimeFactor(item.total), 0 before return
  unitSize, \* useMemo result: item.total / unitsAuto
  d,        \* roundUpToBucket: the Date passed in (its getTime())
  bucketMin,\* roundUpToBucket: the bucket size in minutes
  rounded,  \* roundUpToBucket: the Date returned
  roundPc,  \* "call" before roundUpToBucket has returned, "returned" after
  clock,        \* the current instant: what new Date() and dayjs() read
  role,         \* per page, useState role: "operator" or "requester"
  form,         \* operator's page, useState form: itemKey, leaveInMin, windowHours, units
  nowRounded,   \* operator's page, const nowRounded of the last render
  renderedAt,   \* operator's page, the new Date() the last render passed to roundUpToBucket
  effectPending,\* operator's page, the units effect of the last render has not run yet
  signals,      \* per page, useState signals: the rows of the last delivered load
  postPc,       \* operator's page, position of the running postSignal call
  postReq,      \* operator's page, the row postSignal sent to insert
  loads,        \* per page, the load() calls in flight
  alertMsg,     \* per page, the last alert shown
  table,        \* backend table 'signals'
  lastPost,     \* the inputs of the latest submit, until the backend answers it
  buttons,      \* per page, the ids of the runs whose claim button is rendered enabled
  claimPc,      \* per page, position of the running claimOne call
  claimS,       \* per page, the argument s of the running claimOne call
  claimError,   \* per page, the insertError or rpcError of the latest claimOne call
  live,         \* per page, a change of 'signals' not yet announced on 'signals-live'
  claims,       \* backend table 'claims'
  latestLoad    \* history: per page, the most recently issued load() and its answer

lpfVars == <<n, x, lpf, f, lpfPc, unitsAuto, unitSize>>

roundVars == <<d, bucketMin, rounded, roundPc>>

pageVars == <<clock, role, form, nowRounded, renderedAt, effectPending, signals,
              postPc, postReq, loads, alertMsg, table, lastPost,
              buttons, claimPc, claimS, claimError, live, claims, latestLoad>>

vars == <<lpfVars, roundVars, pageVars>>

(* ---------------- roundUpToBucket (page.tsx 12-16) ---------------- *)
\* roundUpToBucket with Math.floor in place of Math.ceil
roundDownToBucket(date, bMin) ==
  LET ms == date
      bucket == bMin * 60 * 1000
  IN  (ms \div bucket) * bucket

roundUpToBucket(date, bMin) ==
  LET ms == date
      bucket == bMin * 60 * 1000
  IN  MathCeilDiv(ms, bucket) * bucket

\* the instants roundUpToBucket is tried on: around each of the first
\* boundaries of every bucket size, before and after the epoch
RoundInputs ==
  { <<q * mins(b) + e, b>> : q \in (-1)..MaxQuot, e \in {0, 1, mins(1) - 1},
                            b \in 1..MaxBucketMin }

RoundIdle == d = 0 /\ bucketMin = BUCKET_MIN /\ rounded = 0 /\ roundPc = "call"

RoundInit ==
  /\ \E in \in RoundInputs : d = in[1] /\ bucketMin = in[2]
  /\ rounded = 0
  /\ roundPc = "call"

\* rounded = roundUpToBucket(d, bucketMin)
RoundUp ==
  /\ roundPc = "call"
  /\ rounded' = roundUpToBucket(d, bucketMin)
  /\ roundPc' = "returned"
  /\ UNCHANGED <<d, bucketMin>>

\* the returned Date is rounded again: roundUpToBucket(rounded, bucketMin)
RoundAgain ==
  /\ roundPc = "returned"
  /\ d' = rounded
  /\ rounded' = roundUpToBucket(rounded, bucketMin)
  /\ UNCHANGED <<bucketMin, roundPc>>

(* ---------------- largestPrimeFactor (page.tsx 23-38) ---------------- *)
\* JavaScript's / on numbers: an exact quotient is an integer, any other
\* quotient is kept as the fraction it is.
JsDivide(a, b) == IF b # 0 /\ JsRem(a, b) = 0
                  THEN (IF (a >= 0) = (b >= 0) THEN 1 ELSE -1)
                       * ((IF a >= 0 THEN a ELSE -a) \div (IF b >= 0 THEN b ELSE -b))
                  ELSE <<a, b>>

LpfInit ==
  /\ n = 1 /\ x = 1 /\ lpf = 1 /\ f = 3
  /\ lpfPc = "idle"
  /\ unitsAuto = 0 /\ unitSize = 0

\* largestPrimeFactor starting from lpf = 0
LpfCallFromZero(arg) ==
  /\ lpfPc = "idle"
  /\ n' = arg /\ x' = arg /\ lpf' = 0 /\ f' = 3
  /\ lpfPc' = "while2"
  /\ unitsAuto' = 0 /\ unitSize' = 0

\* const largestPrimeFactor = (n) => { let x = n; let lpf = 1;
LpfCall(arg) ==
  /\ lpfPc = "idle"
  /\ n' = arg /\ x' = arg /\ lpf' = 1 /\ f' = 3
  /\ lpfPc' = "while2"
  /\ unitsAuto' = 0 /\ unitSize' = 0

\* while (x % 2 === 0) { lpf = 2; x /= 2; }   then   let f = 3
LpfWhile2 ==
  /\ lpfPc = "while2"
  /\ IF JsRem(x, 2) = 0
     THEN /\ lpf' = 2 /\ x' = JsDivide(x, 2)
          /\ UNCHANGED <<f, lpfPc>>
     ELSE /\ f' = 3 /\ lpfPc' = "for"
          /\ UNCHANGED <<x, lpf>>
  /\ UNCHANGED <<n, unitsAuto, unitSize>>

\* for (...; f * f <= x; ...)
LpfFor ==
  /\ lpfPc = "for"
  /\ lpfPc' = IF f * f <= x THEN "whilef" ELSE "tail"
  /\ UNCHANGED <<n, x, lpf, f, unitsAuto, unitSize>>

\* the odd-factor loop without its "f += 2"
LpfWhileFNoAdvance ==
  /\ lpfPc = "whilef"
  /\ IF JsRem(x, f) = 0
     THEN /\ lpf' = f /\ x' = JsDivide(x, f)
          /\ UNCHANGED <<f, lpfPc>>
     ELSE /\ lpfPc' = "for"
          /\ UNCHANGED <<x, lpf, f>>
  /\ UNCHANGED <<n, unitsAuto, unitSize>>

\* while (x % f === 0) { lpf = f; x /= f; }   then   f += 2
LpfWhileF ==
  /\ lpfPc = "whilef"
  /\ IF JsRem(x, f) = 0
     THEN /\ lpf' = f /\ x' = JsDivide(x, f)
          /\ UNCHANGED <<f, lpfPc>>
     ELSE /\ f' = f + 2 /\ lpfPc' = "for"
          /\ UNCHANGED <<x, lpf>>
  /\ UNCHANGED <<n, unitsAuto, unitSize>>

\* largestPrimeFactor without the final "if (x > 1) lpf = x"
LpfReturnNoTail ==
  /\ lpfPc = "tail"
  /\ lpfPc' = "done"
  /\ unitsAuto' = lpf
  /\ unitSize' = JsDivide(n, lpf)
  /\ UNCHANGED <<n, x, lpf, f>>

\* largestPrimeFactor ending with "if (x >= 1) lpf = x"
LpfReturnTailFromOne ==
  /\ lpfPc = "tail"
  /\ lpf' = IF x >= 1 THEN x ELSE lpf
  /\ lpfPc' = "done"
  /\ unitsAuto' = lpf'
  /\ unitSize' = JsDivide(n, lpf')
  /\ UNCHANGED <<n, x, f>>

\* if (x > 1) lpf = x; return lpf;   and the two useMemo values derived from it
LpfReturn ==
  /\ lpfPc = "tail"
  /\ lpf' = IF x > 1 THEN x ELSE lpf
  /\ lpfPc' = "done"
  /\ unitsAuto' = lpf'
  /\ unitSize' = JsDivide(n, lpf')
  /\ UNCHANGED <<n, x, f>>

\* the caller is free to call again
LpfNext ==
  /\ lpfPc = "done"
  /\ lpfPc' = "idle"
  /\ UNCHANGED <<n, x, lpf, f, unitsAuto, unitSize>>


(* ---------------- serialized instants ---------------- *)
\* Date.prototype.toISOString: day number, hours, minutes, seconds and
\* milliseconds of the instant in UTC
toISOString(t) ==
  << t \div 86400000, (t % 86400000) \div 3600000, (t % 3600000) \div 60000,
     (t % 60000) \div 1000, t % 1000 >>

\* dayjs(s): the instant a serialized date stands for
dayjs(s) == s[1] * 86400000 + s[2] * 3600000 + s[3] * 60000 + s[4] * 1000 + s[5]

(* ---------------- catalog and derived values (page.tsx 41-111) ---------------- *)
CATALOG == [tp30 |-> [label |-> "Toilet paper (30)", total |-> 30],
            pt12 |-> [label |-> "Paper towels (12)", total |-> 12]]

ItemKeys == DOMAIN CATALOG

\* <option value={0}>Now</option> ... <option value={60}>+60 min</option>
LeaveInOptions == {0, 15, 30, 45, 60}

LeaveInTried == { v \in LeaveInOptions : v <= 15 * MaxLeaveIn }

WindowOptions == {1, 2}

\* while (x % f === 0) { lpf = f; x /= f; } : the pair <<x, lpf>> after the loop
RECURSIVE DivideOut(_, _, _)
DivideOut(xx, ff, ll) ==
  IF JsRem(xx, ff) = 0 THEN DivideOut(JsDivide(xx, ff), ff, ff) ELSE <<xx, ll>>

\* for (let f = 3; f * f <= x; f += 2) { ... } : the pair <<x, lpf>> after the loop
RECURSIVE OddFactors(_, _, _)
OddFactors(xx, ff, ll) ==
  IF ff * ff <= xx
  THEN LET r == DivideOut(xx, ff, ll) IN OddFactors(r[1], ff + 2, r[2])
  ELSE <<xx, ll>>

\* largestPrimeFactor as a value, for the totals of the catalog
largestPrimeFactor(m) ==
  LET two == DivideOut(m, 2, 1)
      odd == OddFactors(two[1], 3, two[2])
  IN  IF odd[1] > 1 THEN odd[1] ELSE odd[2]

\* item = store.items.find(i => i.key === form.itemKey)
item(frm) == CATALOG[frm.itemKey]

\* unitsAuto = useMemo(() => largestPrimeFactor(item.total))
unitsAutoOf(frm) == largestPrimeFactor(item(frm).total)

\* purposeText = `${store.label} • ${item.label.split(' (')[0]}`
purposeText(frm) == IF frm.itemKey = "tp30" THEN "Costco - Toilet paper"
                    ELSE "Costco - Paper towels"

\* Math.max(1, Math.min(24, Number(form.units) || 1))
ClampUnits(u) ==
  LET v == IF u = 0 THEN 1 ELSE u
      lo == IF v < 24 THEN v ELSE 24
  IN  IF lo > 1 THEN lo ELSE 1

\* The pages open on the backend. The form (shown in the operator role only)
\* is followed on the operator's page; the other pages are requesters'.
OperatorPage == "op"

Requesters == {"r1", "r2"}

Pages == {OperatorPage} \union Requesters

\* the instants at which the page is observed: each bucket boundary and one
\* millisecond after it
Instants == { q * mins(BUCKET_MIN) + e : q \in 0..MaxTick, e \in {0, 1} }

(* ---------------- the page: state and renders (page.tsx 73-111) ---------------- *)
\* load() sends its select
LoadIssued(q) == Append(q, [served |-> FALSE, data |-> << >>])

formVars == <<form, nowRounded, renderedAt, effectPending>>

postVars == <<postPc, postReq, lastPost>>

claimVars == <<claimPc, claimS, claimError>>

\* every page mounts as operator with no rows, and its mount effect calls load()
PageInit ==
  /\ clock \in Instants
  /\ role = [p \in Pages |-> "operator"]
  /\ form = [itemKey |-> "tp30", leaveInMin |-> 0, windowHours |-> 2, units |-> 6]
  /\ nowRounded = roundUpToBucket(clock, BUCKET_MIN)
  /\ renderedAt = clock
  /\ effectPending = TRUE
  /\ signals = [p \in Pages |-> << >>]
  /\ postPc = "idle"
  /\ postReq = << >>
  /\ loads = [p \in Pages |-> LoadIssued(<< >>)]
  /\ latestLoad = [p \in Pages |-> [state |-> "flight", data |-> << >>]]
  /\ alertMsg = [p \in Pages |-> "none"]
  /\ table = << >>
  /\ lastPost = << >>
  /\ buttons = [p \in Pages |-> {}]
  /\ claimPc = [p \in Pages |-> "idle"]
  /\ claimS = [p \in Pages |-> << >>]
  /\ claimError = [p \in Pages |-> "none"]
  /\ live = [p \in Pages |-> FALSE]
  /\ claims = << >>

\* the clock moves on
Tick ==
  /\ \E t \in Instants : t > clock /\ clock' = t
  /\ UNCHANGED <<role, formVars, signals, postVars, loads, alertMsg, table,
                 buttons, claimVars, live, claims>>

\* useEffect(() => setForm(f => ({...f, units: unitsAuto})), [unitsAuto, form.itemKey])
\* applied to a form state: React runs a pending effect before it renders again
FlushEffect(frm) ==
  IF effectPending THEN [frm EXCEPT !.units = unitsAutoOf(form)] ELSE frm

\* the claim buttons a render shows enabled: the runs of activeSignals
\* (now.isBefore(expires_at)) whose button is not disabled
RenderButtons(r, sigs) ==
  IF r = "requester"
  THEN { sigs[i].id : i \in { j \in DOMAIN sigs :
           /\ clock < dayjs(sigs[j].expires_at)
           /\ ~(sigs[j].units_claimed >= sigs[j].units_total
                \/ clock > dayjs(sigs[j].expires_at)) } }
  ELSE {}

\* a render of the operator's page: nowRounded is recomputed from new Date(),
\* and the effect is scheduled when one of its dependencies changed
Render(frm) ==
  /\ form' = frm
  /\ renderedAt' = clock
  /\ nowRounded' = roundUpToBucket(clock, BUCKET_MIN)
  /\ effectPending' = (frm.itemKey # form.itemKey \/ unitsAutoOf(frm) # unitsAutoOf(form))

\* a render of page p in role r with rows sigs
RenderPage(p, r, sigs) ==
  /\ buttons' = [buttons EXCEPT ![p] = RenderButtons(r, sigs)]
  /\ IF p = OperatorPage THEN Render(FlushEffect(form)) ELSE UNCHANGED formVars

\* the effect runs after the render that scheduled it, and its setForm renders
\* again; an event handled before that still runs the handlers of the render
\* that scheduled the effect, with that render's form
RunEffect ==
  /\ effectPending
  /\ RenderPage(OperatorPage, role[OperatorPage], signals[OperatorPage])
  /\ UNCHANGED <<clock, role, signals, postVars, loads, alertMsg, table,
                 claimVars, live, claims>>

\* <select value={form.itemKey} onChange=...>
SelectItem(k) ==
  /\ role[OperatorPage] = "operator"
  /\ k # form.itemKey
  /\ Render([FlushEffect(form) EXCEPT !.itemKey = k])
  /\ UNCHANGED <<clock, role, signals, postVars, loads, alertMsg, table,
                 buttons, claimVars, live, claims>>

\* <select value={form.leaveInMin} onChange=...>
SelectLeaveIn(v) ==
  /\ role[OperatorPage] = "operator"
  /\ v # form.leaveInMin
  /\ Render([FlushEffect(form) EXCEPT !.leaveInMin = v])
  /\ UNCHANGED <<clock, role, signals, postVars, loads, alertMsg, table,
                 buttons, claimVars, live, claims>>

\* <select value={form.windowHours} onChange=...>
SelectWindow(v) ==
  /\ role[OperatorPage] = "operator"
  /\ v # form.windowHours
  /\ Render([FlushEffect(form) EXCEPT !.windowHours = v])
  /\ UNCHANGED <<clock, role, signals, postVars, loads, alertMsg, table,
                 buttons, claimVars, live, claims>>

\* the Operator / Requester buttons: setRole
SetRole(p, r) ==
  /\ r # role[p]
  /\ role' = [role EXCEPT ![p] = r]
  /\ RenderPage(p, r, signals[p])
  /\ UNCHANGED <<clock, signals, postVars, loads, alertMsg, table,
                 claimVars, live, claims>>

(* ---------------- load (page.tsx 114-133) ---------------- *)
\* Number.isFinite(+v) ? +v : 0
NumberOrZero(v) == IF v \in Int THEN v ELSE 0

\* (data ?? []).map(s => ({...s, units_claimed: ..., units_total: ...}))
LoadedRows(data) ==
  [i \in DOMAIN data |->
     [data[i] EXCEPT !.units_claimed = NumberOrZero(@), !.units_total = NumberOrZero(@)]]

\* the backend answers a select with the rows it holds
LoadServe(p, i) ==
  /\ i \in DOMAIN loads[p]
  /\ ~loads[p][i].served
  /\ loads' = [loads EXCEPT ![p][i] = [served |-> TRUE, data |-> table]]
  /\ UNCHANGED <<clock, role, formVars, signals, postVars, alertMsg, table,
                 buttons, claimVars, live, claims>>

\* the answer arrives: setSignals(...) and the render it causes
LoadDeliver(p, i) ==
  /\ i \in DOMAIN loads[p]
  /\ loads[p][i].served
  /\ signals' = [signals EXCEPT ![p] = LoadedRows(loads[p][i].data)]
  /\ loads' = [loads EXCEPT ![p] = SubSeq(loads[p], 1, i - 1)
                                    \o SubSeq(loads[p], i + 1, Len(loads[p]))]
  /\ RenderPage(p, role[p], signals'[p])
  /\ UNCHANGED <<clock, role, postVars, alertMsg, table, claimVars, live, claims>>

(* ---------------- postSignal (page.tsx 157-185) ---------------- *)
\* postSignal with the grace period counted from the start of the window
PostWindowGraceFromStart(nowR, frm) ==
  LET start == nowR + mins(frm.leaveInMin)
      end == start + hours(frm.windowHours)
  IN  [window_start |-> toISOString(start),
       window_end |-> toISOString(end),
       expires_at |-> toISOString(start + hours(2))]

\* postSignal with the "leave in" minutes taken as hours
PostWindowLeaveInHours(nowR, frm) ==
  LET start == nowR + hours(frm.leaveInMin)
      end == start + hours(frm.windowHours)
  IN  [window_start |-> toISOString(start),
       window_end |-> toISOString(end),
       expires_at |-> toISOString(end + hours(2))]

\* the window postSignal computes from the nowRounded and form of its render
PostWindow(nowR, frm) ==
  LET start == nowR + mins(frm.leaveInMin)
      end == start + hours(frm.windowHours)
  IN  [window_start |-> toISOString(start),
       window_end |-> toISOString(end),
       expires_at |-> toISOString(end + hours(2))]

\* the row postSignal inserts (its direction plays no part and is left out)
PostRow(nowR, frm) ==
  LET w == PostWindow(nowR, frm) IN
  [purpose |-> purposeText(frm),
   window_start |-> w.window_start,
   window_end |-> w.window_end,
   units_total |-> ClampUnits(frm.units),
   expires_at |-> w.expires_at]

\* the row the backend stores for an inserted run; units_claimed starts at 0
StoredRow(id, req) ==
  [id |-> id,
   window_start |-> req.window_start,
   window_end |-> req.window_end,
   units_total |-> req.units_total,
   units_claimed |-> 0,
   expires_at |-> req.expires_at]

\* the form is submitted: postSignal runs up to its await
PostSignal ==
  /\ role[OperatorPage] = "operator"
  /\ postPc = "idle"
  /\ Len(table) < MaxRows
  /\ postReq' = PostRow(nowRounded, form)
  /\ postPc' = "insert"
  /\ lastPost' = [at |-> clock, renderedAt |-> renderedAt, nowRounded |-> nowRounded,
                  form |-> form, row |-> postReq']
  /\ UNCHANGED <<clock, role, formVars, signals, loads, alertMsg, table,
                 buttons, claimVars, live, claims>>

\* the backend stores the row, which changes 'signals' for every subscriber
InsertSignalOk ==
  /\ postPc = "insert"
  /\ table' = Append(table, StoredRow(Len(table) + 1, postReq))
  /\ postPc' = "ok"
  /\ lastPost' = << >>
  /\ live' = [p \in Pages |-> TRUE]
  /\ UNCHANGED <<clock, role, formVars, signals, postReq, loads, alertMsg,
                 buttons, claimVars, claims>>

\* the backend rejects the insert
InsertSignalError ==
  /\ postPc = "insert"
  /\ postPc' = "error"
  /\ lastPost' = << >>
  /\ UNCHANGED <<clock, role, formVars, signals, postReq, loads, alertMsg, table,
                 buttons, claimVars, live, claims>>

\* postSignal reloading after the alert as well
PostSignalResumeAlwaysLoad ==
  /\ postPc \in {"ok", "error"}
  /\ Len(loads[OperatorPage]) < MaxLoads
  /\ loads' = [loads EXCEPT ![OperatorPage] = LoadIssued(@)]
  /\ alertMsg' = IF postPc = "error"
                 THEN [alertMsg EXCEPT ![OperatorPage] = "Insert failed"]
                 ELSE alertMsg
  /\ postPc' = "idle"
  /\ postReq' = << >>
  /\ UNCHANGED <<clock, role, formVars, signals, table, lastPost,
                 buttons, claimVars, live, claims>>

\* if (error) alert('Insert failed: ...') else await load()
PostSignalResume ==
  /\ postPc \in {"ok", "error"}
  /\ IF postPc = "error"
     THEN /\ alertMsg' = [alertMsg EXCEPT ![OperatorPage] = "Insert failed"]
          /\ UNCHANGED loads
     ELSE /\ Len(loads[OperatorPage]) < MaxLoads
          /\ loads' = [loads EXCEPT ![OperatorPage] = LoadIssued(@)]
          /\ UNCHANGED alertMsg
  /\ postPc' = "idle"
  /\ postReq' = << >>
  /\ UNCHANGED <<clock, role, formVars, signals, table, lastPost,
                 buttons, claimVars, live, claims>>

(* ---------------- claimOne (page.tsx 188-214) ---------------- *)
\* dayjs().isAfter(dayjs(s.expires_at))
Expired(s) == clock > dayjs(s.expires_at)

\* the row of the page's signals with the given id
SignalOf(p, id) == signals[p][CHOOSE i \in DOMAIN signals[p] : signals[p][i].id = id]

\* the clock reaches the expiry of a stored run, or the millisecond after it
TickExpiry ==
  /\ \E i \in DOMAIN table, e \in {0, 1} :
       /\ dayjs(table[i].expires_at) + e > clock
       /\ clock' = dayjs(table[i].expires_at) + e
  /\ UNCHANGED <<role, formVars, signals, postVars, loads, alertMsg, table,
                 buttons, claimVars, live, claims>>

\* onClick={() => claimOne(s)}: the guard, then the insert into 'claims' is sent
ClaimOne(p, id) ==
  /\ id \in buttons[p]
  /\ claimPc[p] = "idle"
  /\ LET s == SignalOf(p, id) IN
       IF s.units_claimed >= s.units_total \/ Expired(s)
       THEN UNCHANGED claimVars
       ELSE /\ claimPc' = [claimPc EXCEPT ![p] = "insert"]
            /\ claimS' = [claimS EXCEPT ![p] = s]
            /\ claimError' = [claimError EXCEPT ![p] = "none"]
  /\ UNCHANGED <<clock, role, formVars, signals, postVars, loads, alertMsg, table,
                 buttons, live, claims>>

\* the backend stores { signal_id: s.id, unit_count: 1 }; claimOne resumes with
\* no insertError and sends the rpc increment_claimed
ClaimInsertOk(p) ==
  /\ claimPc[p] = "insert"
  /\ Len(claims) < MaxClaims
  /\ claims' = Append(claims, [signal_id |-> claimS[p].id, unit_count |-> 1])
  /\ claimPc' = [claimPc EXCEPT ![p] = "rpc"]
  /\ UNCHANGED <<clock, role, formVars, signals, postVars, loads, alertMsg, table,
                 buttons, claimS, claimError, live>>

\* claimOne going on to the rpc whatever the insert answered
ClaimInsertErrorIgnored(p) ==
  /\ claimPc[p] = "insert"
  /\ claimError' = [claimError EXCEPT ![p] = "insertError"]
  /\ claimPc' = [claimPc EXCEPT ![p] = "rpc"]
  /\ UNCHANGED <<clock, role, formVars, signals, postVars, loads, alertMsg, table,
                 buttons, claimS, live, claims>>

\* the backend rejects the insert into 'claims'; claimOne resumes:
\* if (insertError) { alert('Claim failed: ...'); return }
ClaimInsertError(p) ==
  /\ claimPc[p] = "insert"
  /\ claimError' = [claimError EXCEPT ![p] = "insertError"]
  /\ alertMsg' = [alertMsg EXCEPT ![p] = "Claim failed"]
  /\ claimPc' = [claimPc EXCEPT ![p] = "idle"]
  /\ claimS' = [claimS EXCEPT ![p] = << >>]
  /\ UNCHANGED <<clock, role, formVars, signals, postVars, loads, table,
                 buttons, live, claims>>

\* increment_claimed adding to units_claimed whatever units_total is
IncrementUnconditional(rows, id, cnt) ==
  [i \in DOMAIN rows |->
     IF rows[i].id = id
     THEN [rows[i] EXCEPT !.units_claimed = @ + cnt]
     ELSE rows[i]]

\* the backend procedure increment_claimed(p_signal_id, p_count): a conditional
\* increment that never takes units_claimed above units_total
IncrementClaimed(rows, id, cnt) ==
  [i \in DOMAIN rows |->
     IF rows[i].id = id /\ rows[i].units_claimed + cnt <= rows[i].units_total
     THEN [rows[i] EXCEPT !.units_claimed = @ + cnt]
     ELSE rows[i]]

\* the backend runs increment_claimed and answers without an error (an applied
\* increment changes 'signals' for every subscriber); claimOne resumes: await load()
ClaimRpcOk(p) ==
  /\ claimPc[p] = "rpc"
  /\ Len(loads[p]) < MaxLoads
  /\ table' = IncrementClaimed(table, claimS[p].id, 1)
  /\ live' = IF table' # table THEN [q \in Pages |-> TRUE] ELSE live
  /\ loads' = [loads EXCEPT ![p] = LoadIssued(@)]
  /\ claimPc' = [claimPc EXCEPT ![p] = "idle"]
  /\ claimS' = [claimS EXCEPT ![p] = << >>]
  /\ UNCHANGED <<clock, role, formVars, signals, postVars, alertMsg,
                 buttons, claimError, claims>>

\* the rpc answers with an error, from the transport or from a procedure that
\* declined the increment; claimOne resumes:
\* if (rpcError) { alert('Claim failed: ...'); return }
ClaimRpcError(p) ==
  /\ claimPc[p] = "rpc"
  /\ claimError' = [claimError EXCEPT ![p] = "rpcError"]
  /\ alertMsg' = [alertMsg EXCEPT ![p] = "Claim failed"]
  /\ claimPc' = [claimPc EXCEPT ![p] = "idle"]
  /\ claimS' = [claimS EXCEPT ![p] = << >>]
  /\ UNCHANGED <<clock, role, formVars, signals, postVars, loads, table,
                 buttons, live, claims>>

\* the 'signals-live' channel announces a change: () => { load() }
LiveCallback(p) ==
  /\ live[p]
  /\ Len(loads[p]) < MaxLoads
  /\ live' = [live EXCEPT ![p] = FALSE]
  /\ loads' = [loads EXCEPT ![p] = LoadIssued(@)]
  /\ UNCHANGED <<clock, role, formVars, signals, postVars, alertMsg, table,
                 buttons, claimVars, claims>>

(* ---------------- specifications ---------------- *)
PageIdle ==
  /\ clock = 0
  /\ role = [p \in Pages |-> "operator"]
  /\ form = [itemKey |-> "tp30", leaveInMin |-> 0, windowHours |-> 2, units |-> 6]
  /\ nowRounded = 0
  /\ renderedAt = 0
  /\ effectPending = TRUE
  /\ signals = [p \in Pages |-> << >>]
  /\ postPc = "idle"
  /\ postReq = << >>
  /\ loads = [p \in Pages |-> << >>]
  /\ latestLoad = [p \in Pages |-> [state |-> "none", data |-> << >>]]
  /\ alertMsg = [p \in Pages |-> "none"]
  /\ table = << >>
  /\ lastPost = << >>
  /\ buttons = [p \in Pages |-> {}]
  /\ claimPc = [p \in Pages |-> "idle"]
  /\ claimS = [p \in Pages |-> << >>]
  /\ claimError = [p \in Pages |-> "none"]
  /\ live = [p \in Pages |-> FALSE]
  /\ claims = << >>

InitLpf == LpfInit /\ RoundIdle /\ PageIdle

NextLpf ==
  \/ (\E arg \in (-NegN)..MaxN : LpfCall(arg)) /\ UNCHANGED <<roundVars, pageVars>>
  \/ LpfWhile2 /\ UNCHANGED <<roundVars, pageVars>>
  \/ LpfFor /\ UNCHANGED <<roundVars, pageVars>>
  \/ LpfWhileF /\ UNCHANGED <<roundVars, pageVars>>
  \/ LpfReturn /\ UNCHANGED <<roundVars, pageVars>>
  \/ LpfNext /\ UNCHANGED <<roundVars, pageVars>>

SpecLpf == InitLpf /\ [][NextLpf]_vars

\* largestPrimeFactor is synchronous code: once called, each of its steps
\* that can run does run
SpecLpfFair ==
  /\ SpecLpf
  /\ WF_vars(LpfWhile2 /\ UNCHANGED <<roundVars, pageVars>>)
  /\ WF_vars(LpfFor /\ UNCHANGED <<roundVars, pageVars>>)
  /\ WF_vars(LpfWhileF /\ UNCHANGED <<roundVars, pageVars>>)
  /\ WF_vars(LpfReturn /\ UNCHANGED <<roundVars, pageVars>>)

InitRound == RoundInit /\ LpfInit /\ PageIdle

NextRound ==
  \/ RoundUp /\ UNCHANGED <<lpfVars, pageVars>>
  \/ RoundAgain /\ UNCHANGED <<lpfVars, pageVars>>

SpecRound == InitRound /\ [][NextRound]_vars

\* the operator's page: the form, its renders, postSignal and load
InitPost == PageInit /\ LpfInit /\ RoundIdle

NextPost ==
  \/ Tick /\ UNCHANGED <<lpfVars, roundVars, latestLoad>>
  \/ RunEffect /\ UNCHANGED <<lpfVars, roundVars, latestLoad>>
  \/ (\E k \in ItemKeys : SelectItem(k)) /\ UNCHANGED <<lpfVars, roundVars, latestLoad>>
  \/ (\E v \in LeaveInTried : SelectLeaveIn(v)) /\ UNCHANGED <<lpfVars, roundVars, latestLoad>>
  \/ (\E v \in WindowOptions : SelectWindow(v)) /\ UNCHANGED <<lpfVars, roundVars, latestLoad>>
  \/ (\E r \in {"operator", "requester"} : SetRole(OperatorPage, r))
       /\ UNCHANGED <<lpfVars, roundVars, latestLoad>>
  \/ PostSignal /\ UNCHANGED <<lpfVars, roundVars, latestLoad>>
  \/ InsertSignalOk /\ UNCHANGED <<lpfVars, roundVars, latestLoad>>
  \/ InsertSignalError /\ UNCHANGED <<lpfVars, roundVars, latestLoad>>
  \/ PostSignalResume /\ UNCHANGED <<lpfVars, roundVars, latestLoad>>
  \/ (\E i \in 1..MaxLoads : LoadServe(OperatorPage, i)) /\ UNCHANGED <<lpfVars, roundVars, latestLoad>>
  \/ (\E i \in 1..MaxLoads : LoadDeliver(OperatorPage, i)) /\ UNCHANGED <<lpfVars, roundVars, latestLoad>>

SpecPost == InitPost /\ [][NextPost]_vars

\* the run the operator posts at the epoch for paper towels, once the units
\* effect has run: 3 units, leaving now, 2 hours
PostedRun ==
  StoredRow(1, PostRow(roundUpToBucket(0, BUCKET_MIN),
                       [itemKey |-> "pt12", leaveInMin |-> 0, windowHours |-> 2,
                        units |-> unitsAutoOf([itemKey |-> "pt12"])]))

\* the requesters' pages, mounted a millisecond after that run was stored:
\* they are in the requester role and their first load() is in flight
InitClaim ==
  /\ clock = 1
  /\ role = [p \in Pages |-> IF p \in Requesters THEN "requester" ELSE "operator"]
  /\ form = [itemKey |-> "pt12", leaveInMin |-> 0, windowHours |-> 2, units |-> 3]
  /\ nowRounded = 0
  /\ renderedAt = 0
  /\ effectPending = FALSE
  /\ signals = [p \in Pages |-> << >>]
  /\ postPc = "idle"
  /\ postReq = << >>
  /\ loads = [p \in Pages |-> IF p \in Requesters THEN LoadIssued(<< >>) ELSE << >>]
  /\ latestLoad = [p \in Pages |-> [state |-> IF p \in Requesters THEN "flight" ELSE "none",
                                     data |-> << >>]]
  /\ alertMsg = [p \in Pages |-> "none"]
  /\ table = << PostedRun >>
  /\ lastPost = << >>
  /\ buttons = [p \in Pages |-> {}]
  /\ claimPc = [p \in Pages |-> "idle"]
  /\ claimS = [p \in Pages |-> << >>]
  /\ claimError = [p \in Pages |-> "none"]
  /\ live = [p \in Pages |-> FALSE]
  /\ claims = << >>
  /\ LpfInit /\ RoundIdle

NextClaim ==
  \/ TickExpiry /\ UNCHANGED <<lpfVars, roundVars, latestLoad>>
  \/ (\E p \in Requesters, i \in 1..MaxLoads : LoadServe(p, i)) /\ UNCHANGED <<lpfVars, roundVars, latestLoad>>
  \/ (\E p \in Requesters, i \in 1..MaxLoads : LoadDeliver(p, i)) /\ UNCHANGED <<lpfVars, roundVars, latestLoad>>
  \/ (\E p \in Requesters, i \in DOMAIN table : ClaimOne(p, table[i].id))
       /\ UNCHANGED <<lpfVars, roundVars, latestLoad>>
  \/ (\E p \in Requesters : ClaimInsertOk(p)) /\ UNCHANGED <<lpfVars, roundVars, latestLoad>>
  \/ (\E p \in Requesters : ClaimInsertError(p)) /\ UNCHANGED <<lpfVars, roundVars, latestLoad>>
  \/ (\E p \in Requesters : ClaimRpcOk(p)) /\ UNCHANGED <<lpfVars, roundVars, latestLoad>>
  \/ (\E p \in Requesters : ClaimRpcError(p)) /\ UNCHANGED <<lpfVars, roundVars, latestLoad>>

SpecClaim == InitClaim /\ [][NextClaim]_vars

\* one requester's page with its loads followed: the load() issued last is the
\* last of loads[p] until its answer is delivered
LoadPage == "r1"

NoteIssued(p) ==
  latestLoad' = [latestLoad EXCEPT ![p] = [state |-> "flight", data |-> << >>]]

NoteDelivered(p, i) ==
  latestLoad' = IF latestLoad[p].state = "flight" /\ i = Len(loads[p])
                THEN [latestLoad EXCEPT ![p] = [state |-> "delivered",
                                                data |-> loads[p][i].data]]
                ELSE latestLoad

NextLoad ==
  \/ (\E i \in 1..MaxLoads : LoadServe(LoadPage, i))
       /\ UNCHANGED <<lpfVars, roundVars, latestLoad>>
  \/ (\E i \in 1..MaxLoads : LoadDeliver(LoadPage, i) /\ NoteDelivered(LoadPage, i))
       /\ UNCHANGED <<lpfVars, roundVars>>
  \/ LiveCallback(LoadPage) /\ NoteIssued(LoadPage) /\ UNCHANGED <<lpfVars, roundVars>>
  \/ (\E i \in DOMAIN table : ClaimOne(LoadPage, table[i].id))
       /\ UNCHANGED <<lpfVars, roundVars, latestLoad>>
  \/ ClaimInsertOk(LoadPage) /\ UNCHANGED <<lpfVars, roundVars, latestLoad>>
  \/ ClaimRpcOk(LoadPage) /\ NoteIssued(LoadPage) /\ UNCHANGED <<lpfVars, roundVars>>

SpecLoad == InitClaim /\ [][NextLoad]_vars

(* ======================= properties ======================= *)
IsPrime(p) == p >= 2 /\ \A q \in 2..(p - 1) : p % q # 0

PrimeDivisors(m) == { p \in 2..m : IsPrime(p) /\ m % p = 0 }

\* C1: for every integer n >= 2 the value largestPrimeFactor(n) returns (the
\* unit count) is the largest prime dividing n; 30 gives 5 units of 6 and
\* 12 gives 3 units of 4.
C1_LargestPrime ==
  (lpfPc = "done" /\ n >= 2) =>
    /\ unitsAuto \in PrimeDivisors(n)
    /\ \A p \in PrimeDivisors(n) : p <= unitsAuto
    /\ (n = 30 => unitsAuto = 5 /\ unitSize = 6)
    /\ (n = 12 => unitsAuto = 3 /\ unitSize = 4)

C1_Witness == lpfPc = "done" /\ n = 30 /\ unitsAuto = 5 /\ unitSize = 6

\* C2: for every total quantity n >= 1 the unit plan has 1 <= unitCount <= n,
\* unitCount divides n, unitSize is an integer and unitCount * unitSize = n.
C2_PlanDivides ==
  (lpfPc = "done" /\ n >= 1) =>
    /\ unitsAuto >= 1 /\ unitsAuto <= n
    /\ n % unitsAuto = 0
    /\ unitSize \in Int
    /\ unitsAuto * unitSize = n

C2_Witness == lpfPc = "done" /\ n = 12 /\ unitsAuto = 3 /\ unitSize = 4 /\ x = 3

\* C4: roundUpToBucket(now, b) is the smallest multiple of the bucket that is
\* >= now: an instant on a boundary is returned unchanged (rounding again
\* changes nothing), one millisecond past a boundary goes to the next one.
C4_SmallestMultiple ==
  roundPc = "returned" =>
    LET bucket == mins(bucketMin) IN
    /\ rounded % bucket = 0
    /\ rounded >= d
    /\ rounded - d < bucket
    /\ (d % bucket = 0 => rounded = d)
    /\ (d % bucket = 1 => rounded = d - 1 + bucket)

C4_Witness ==
  /\ roundPc = "returned"
  /\ bucketMin = BUCKET_MIN /\ d = mins(BUCKET_MIN) + 1
  /\ rounded = 2 * mins(BUCKET_MIN)

\* C3: the window of every submitted run has start <= end < expiresAt, in the
\* row postSignal sends and in the rows the backend stored from it.
C3_WindowOrdered ==
  /\ lastPost # << >> =>
        /\ dayjs(lastPost.row.window_start) <= dayjs(lastPost.row.window_end)
        /\ dayjs(lastPost.row.window_end) < dayjs(lastPost.row.expires_at)
  /\ \A i \in DOMAIN table :
        /\ dayjs(table[i].window_start) <= dayjs(table[i].window_end)
        /\ dayjs(table[i].window_end) < dayjs(table[i].expires_at)

C3_Witness ==
  /\ lastPost # << >>
  /\ lastPost.form.leaveInMin = 15 /\ lastPost.form.windowHours = 2
  /\ dayjs(lastPost.row.window_start) < dayjs(lastPost.row.window_end)

\* C5: the submitted window is start = nowRounded + leaveInMin minutes,
\* end = start + windowHours hours, expiresAt = end + 2 hours; when the render
\* read a now on a 15-minute boundary and leaveIn = 0, windowHours = 2 this is
\* start = now, end = now + 2h, expiresAt = now + 4h.
C5_WindowExact ==
  lastPost # << >> =>
    LET start == dayjs(lastPost.row.window_start)
        end == dayjs(lastPost.row.window_end)
        expiresAt == dayjs(lastPost.row.expires_at)
    IN  /\ start = lastPost.nowRounded + lastPost.form.leaveInMin * 60000
        /\ end = start + lastPost.form.windowHours * 3600000
        /\ expiresAt = end + 2 * 3600000
        /\ ( /\ lastPost.renderedAt % (15 * 60000) = 0
             /\ lastPost.form.leaveInMin = 0
             /\ lastPost.form.windowHours = 2 )
           => /\ start = lastPost.renderedAt
              /\ end = lastPost.renderedAt + 2 * 3600000
              /\ expiresAt = lastPost.renderedAt + 4 * 3600000

C5_Witness ==
  /\ lastPost # << >>
  /\ lastPost.renderedAt % (15 * 60000) = 0
  /\ lastPost.form.leaveInMin = 0 /\ lastPost.form.windowHours = 2
  /\ dayjs(lastPost.row.window_start) = lastPost.renderedAt
  /\ dayjs(lastPost.row.expires_at) = lastPost.renderedAt + 4 * 3600000

\* C6: whenever postSignal submits a run, units_total is
\* max(1, min(24, largestPrimeFactor(total))) of the item selected at submission.
C6_UnitsOfSelectedItem ==
  lastPost # << >> =>
    lastPost.row.units_total
      = ClampUnits(largestPrimeFactor(CATALOG[lastPost.form.itemKey].total))

\* C7: once the clock is after a run's expires_at no insert into 'claims' for
\* that run and no increment of its units_claimed reaches the backend.
C7_NoClaimAfterExpiry ==
  [][ /\ Len(claims') > Len(claims) =>
           \A i \in DOMAIN table :
             table[i].id = claims'[Len(claims')].signal_id
               => ~(clock > dayjs(table[i].expires_at))
      /\ \A i \in DOMAIN table :
           (i \in DOMAIN table' /\ table'[i].units_claimed # table[i].units_claimed)
             => ~(clock > dayjs(table[i].expires_at)) ]_vars

\* C8: under any interleaving of claimOne calls from several pages, each on
\* its own possibly stale signals, units_claimed never exceeds units_total.
C8_ClaimedWithinTotal ==
  \A i \in DOMAIN table : table[i].units_claimed <= table[i].units_total

C8_Witness ==
  /\ \E i \in DOMAIN table : table[i].units_claimed = table[i].units_total
  /\ \E p \in Requesters :
       /\ claimPc[p] = "rpc"
       /\ claimS[p].units_claimed < claimS[p].units_total

\* C9: the window_start postSignal submits is never earlier than the instant
\* of the submit.
C9_StartNotInPast ==
  lastPost # << >> => dayjs(lastPost.row.window_start) >= lastPost.at

\* C11: largestPrimeFactor terminates for every positive integer n: a call
\* that has entered the divide-by-2 loop leaves it and the odd-factor loop and
\* returns.
C11_Terminates == (lpfPc = "while2" /\ n >= 1) ~> (lpfPc = "done")

C11_Witness == lpfPc = "done" /\ n = 36 /\ x = 1 /\ f = 5 /\ unitsAuto = 3

\* C12: for every prime p the unit plan is unitCount = p and unitSize = 1.
C12_PrimePlan ==
  (lpfPc = "done" /\ IsPrime(n)) => (unitsAuto = n /\ unitSize = 1)

C12_Witness == lpfPc = "done" /\ n = 37 /\ unitsAuto = 37 /\ unitSize = 1

\* C13: for n = 1 largestPrimeFactor returns 1 and the unit plan is
\* unitCount = 1, unitSize = 1.
C13_OnePlan ==
  (lpfPc = "done" /\ n = 1) => (lpf = 1 /\ unitsAuto = 1 /\ unitSize = 1)

C13_Witness == lpfPc = "done" /\ n = 1 /\ x = 1 /\ unitsAuto = 1

\* C14: in claimOne an error of the insert into 'claims' ends the call with an
\* alert, without the increment_claimed rpc and without a reload; an error of
\* the rpc ends the call with an alert and without a reload.
C14_ErrorsOnlyAlert ==
  [][ \A p \in Requesters :
        /\ (claimError'[p] = "insertError" /\ claimError[p] # "insertError") =>
              /\ claimPc[p] = "insert" /\ claimPc'[p] = "idle"
              /\ table' = table /\ claims' = claims
              /\ loads'[p] = loads[p]
              /\ alertMsg'[p] = "Claim failed"
        /\ (claimError'[p] = "rpcError" /\ claimError[p] # "rpcError") =>
              /\ claimPc[p] = "rpc" /\ claimPc'[p] = "idle"
              /\ loads'[p] = loads[p]
              /\ alertMsg'[p] = "Claim failed"
        /\ claimError'[p] # "none" =>
              /\ claimPc'[p] = "idle"
              /\ Len(loads'[p]) <= Len(loads[p]) ]_vars

C14_Witness ==
  /\ claimError["r1"] = "insertError" /\ claimError["r2"] = "rpcError"
  /\ claimPc["r1"] = "idle" /\ claimPc["r2"] = "idle"
  /\ alertMsg["r1"] = "Claim failed" /\ alertMsg["r2"] = "Claim failed"
  /\ Len(claims) = 1

\* C15: in postSignal an error of the insert into 'signals' leaves the local
\* signals unchanged, issues no reload and shows an alert; postSignal issues a
\* reload only after a successful insert.
C15_ReloadOnlyAfterInsert ==
  [][ /\ (postPc = "insert" /\ postPc' = "error") =>
           (table' = table /\ loads' = loads /\ signals' = signals)
      /\ (postPc = "error" /\ postPc' = "idle") =>
           /\ signals' = signals
           /\ loads' = loads
           /\ alertMsg'[OperatorPage] = "Insert failed"
      /\ Len(loads'[OperatorPage]) > Len(loads[OperatorPage]) =>
           (postPc = "ok" /\ Len(table) > 0) ]_vars

C15_Witness ==
  /\ alertMsg[OperatorPage] = "Insert failed"
  /\ postPc = "idle"
  /\ Len(table) = 1
  /\ \E i \in DOMAIN loads[OperatorPage] : ~loads[OperatorPage][i].served
  /\ signals[OperatorPage] = << >>

ClaimRows(id) == { j \in DOMAIN claims : claims[j].signal_id = id }

\* C16: under any interleaving of claimOne calls from several pages holding
\* stale signals, the rows inserted into 'claims' for a run never outnumber
\* the run's units_total.
C16_ClaimRowsWithinTotal ==
  \A i \in DOMAIN table : Cardinality(ClaimRows(table[i].id)) <= table[i].units_total

\* C17: once every claimOne call has completed, with success or with an error,
\* the rows of 'claims' for a run are as many as the increments applied to the
\* run's units_claimed.
C17_RowsMatchIncrements ==
  (\A p \in Requesters : claimPc[p] = "idle") =>
     \A i \in DOMAIN table : Cardinality(ClaimRows(table[i].id)) = table[i].units_claimed

\* C18: with several load() calls in flight whose answers arrive in any order,
\* once all of them have completed the page's signals are the rows answered to
\* the load() issued last.
C18_LatestLoadWins ==
  \A p \in Requesters :
     (loads[p] = << >> /\ latestLoad[p].state = "delivered") =>
        signals[p] = LoadedRows(latestLoad[p].data)

\* C10: a call of largestPrimeFactor with a total quantity that is zero or
\* negative never returns a unit count (it ends in InvalidArgument).
C10_NoReturnForNonPositive == n <= 0 => lpfPc # "done"

====
